---- MODULE Spec2Model ----
(***************************************************************************)
(* Model of unsloth_zoo/training_utils.py: the label scanner               *)
(* fix_zero_training_loss, the planner get_max_steps, the checkpoint writer *)
(* save_checkpoint and the training loop unsloth_train.                    *)
(*                                                                         *)
(* unsloth_train is one sequential function; pc is its position.  A run    *)
(* starts in StartRun (lines 153-263), walks the epoch loop (279) and the  *)
(* window loop (295), and ends Completed (351-358) or Fatal (an exception  *)
(* leaves the function).  The output directory (disk) outlives a run, so   *)
(* a later run can resume from a checkpoint an earlier run wrote.          *)
(*                                                                         *)
(* Scope of the loop model (Spec): per-device batch size 1 (one dataset    *)
(* row per micro-batch), integer num_train_epochs, args.should_save true   *)
(* (the single process is the main one).  save_steps and num_train_epochs  *)
(* are floats in the program; here they are fractions num/den whose den is *)
(* a power of two, which floats hold exactly, so the arithmetic is exact.  *)
(* torch.cuda.amp.GradScaler is the library's: its step skips the update   *)
(* when unscale_ found an inf, its update halves the scale then; growth    *)
(* needs 2000 unskipped steps in a row, more than any run here takes.      *)
(*                                                                         *)
(* A micro-batch is identified by <<epoch, position>> of the per-epoch     *)
(* shuffled order: seed + epoch fixes that order (line 282), so the same   *)
(* position of the same epoch is the same micro-batch in every run.        *)
(*                                                                         *)
(* get_max_steps and fix_zero_training_loss are pure functions of their    *)
(* arguments and are explored on their own, under PlannerSpec (any batch   *)
(* size, fractional num_train_epochs) and ScannerSpec (the rows of the     *)
(* dataset are chosen as the loop reads them).                             *)
(***************************************************************************)
EXTENDS Integers, Sequences, FiniteSets, TLC

\* ---------------------------------------------------------------- bounds
MaxSamples   == 3   \* len(trainer.train_dataset) ranges over 1..MaxSamples
MaxGA        == 2   \* gradient_accumulation_steps ranges over 1..MaxGA
MaxEpochs    == 2   \* num_train_epochs ranges over 1..MaxEpochs
MaxStepsArg  == 2   \* training_args.max_steps ranges over 1..MaxStepsArg when given
MaxSaveSteps == 2   \* save_steps ranges over 1..MaxSaveSteps
MaxSavedStep == 2   \* global_step recorded by a checkpoint another trainer wrote
MaxRuns      == 2   \* calls of unsloth_train on the same output directory
MaxWorldSize == 2   \* training_args.world_size ranges over 1..MaxWorldSize
MaxLoggingSteps == 2  \* logging_steps ranges over 1..MaxLoggingSteps
SaveDenLog   == 1   \* a fractional save_steps is num / 2^SaveDenLog, 0 < num < den
MaxBatch     == 2   \* get_max_steps alone: per_device_train_batch_size in 1..MaxBatch
MaxEpochNum  == 6   \* get_max_steps alone: num_train_epochs is num / den,
EpochDenLog  == 2   \*   num in 1..MaxEpochNum, den in 1, 2, .. 2^EpochDenLog
MaxRows      == 103 \* fix_zero_training_loss: the dataset has at most MaxRows rows
MaxEmptyRows == 1   \*   of which at most MaxEmptyRows have an empty label list

\* ---------------------------------------------------------------- constants
IGNORE_INDEX == -100

\* torch.cuda.amp.GradScaler(): init_scale 2.**16 (line 233), as its
\* binary logarithm
InitScale == 16

\* the row index at which fix_zero_training_loss stops (line 57)
ScanLimit == 100

\* loss.detach() of one forward pass (line 312), in some unit
LossValues == {1, 2}

RECURSIVE Pow2(_)
Pow2(e) == IF e = 0 THEN 1 ELSE 2 * Pow2(e - 1)

\* the float num/den
Rat(num, den) == [num |-> num, den |-> den]

\* Label rows a dataset row can carry (x["labels"] of a micro-batch).
LabelRows == { <<IGNORE_INDEX, IGNORE_INDEX>>,
               <<5, IGNORE_INDEX>>,
               <<5, 5>>,
               <<IGNORE_INDEX, 5, 5>> }

VARIABLES
    args,               \* trainer.args (immutable)
    disk,               \* output_dir: the checkpoint-{key} directories
    trainer_state,      \* trainer.state.global_step
    status,             \* "Idle" | "Running" | "Completed" | "Fatal"
    run,                \* number of calls of unsloth_train so far
    pc,                 \* position inside unsloth_train
    resume,             \* the checkpoint this run resumed from
    step, max_steps, num_train_epochs, max_iterations,
    num_trained_epochs, num_trained_steps, leftover_batches,
    epoch, j,           \* loop variables of lines 279 and 295
    it_pos,             \* micro-batches already drawn from train_dataloader_iterator
    batches, n_items,   \* the window's micro-batches (their labels) and line 300
    k,                  \* index of the micro-batch the loop of line 305 is at
    passed,             \* n_items handed to each forward pass of the window
    grads,              \* backward passes accumulated since the last zero_grad
    opt_steps, sched_steps, zero_grads,   \* calls in this run
    windows,            \* the windows this run fetched, in order
    saved,              \* the keys of this run's save_checkpoint calls, in order
    prev,               \* what the previous run left behind
    training,           \* model.training, model.model.training (lines 101-118)
    weights,            \* the checkpoint whose weights the model holds (line 163)
    scale, found_inf,   \* float16_scaler: log2 of its scale; unscale_ found an inf
    param_updates,      \* optimizer updates applied to the parameters in this run
    accumulated_loss,   \* line 258
    window_loss,        \* the sum of loss.detach() over the window's forward passes
    emitted, n_emitted, \* the line written since step last advanced; their number
    ops,                \* the operations of the current window, in order
    planned,            \* what get_max_steps returned (PlannerSpec)
    scan                \* fix_zero_training_loss: its locals and outcome (ScannerSpec)

plan == <<step, max_steps, num_train_epochs, max_iterations,
          num_trained_epochs, num_trained_steps, leftover_batches>>
window == <<batches, n_items, k, passed>>
counters == <<grads, opt_steps, sched_steps, zero_grads>>
process == <<args, trainer_state, status, run, resume, prev>>
model_state == <<training, weights>>
scaler == <<scale, found_inf>>
progress == <<accumulated_loss, window_loss, emitted, n_emitted>>
apart == <<planned, scan>>
loop_vars == <<disk, trainer_state, status, run, pc, resume, step, max_steps,
               num_train_epochs, max_iterations, num_trained_epochs,
               num_trained_steps, leftover_batches, epoch, j, it_pos, batches,
               n_items, k, passed, grads, opt_steps, sched_steps, zero_grads,
               windows, saved, prev, training, weights, scale, found_inf,
               param_updates, accumulated_loss, window_loss, emitted, n_emitted,
               ops>>
vars == <<args, loop_vars, planned, scan>>

\* ---------------------------------------------------------------- helpers
Max(a, b) == IF a >= b THEN a ELSE b

\* math.ceil(a / b) for a >= 0, b >= 1
CeilDiv(a, b) == (a + b - 1) \div b

\* (mutant) the last, partial window of an epoch counts as an update step
UpdatesPerEpoch_Ceil(n_training_samples, ga) ==
    Max(CeilDiv(n_training_samples, ga), 1)

\* lines 83-84: len_dataloader // gradient_accumulation_steps, at least 1
UpdatesPerEpoch(n_training_samples, ga) ==
    Max(n_training_samples \div ga, 1)

\* get_max_steps, lines 72-98; num_train_epochs is the float num/den
GetMaxSteps(a, n_training_samples) ==
    LET total_train_batch_size ==
            a.per_device_train_batch_size * a.gradient_accumulation_steps
        num_update_steps_per_epoch ==
            UpdatesPerEpoch(n_training_samples, a.gradient_accumulation_steps)
        ep == a.num_train_epochs
    IN  IF a.world_size > 1
        THEN [ raised |-> TRUE ]
        ELSE IF a.max_steps > 0
        THEN [ raised |-> FALSE,
               total_train_batch_size |-> total_train_batch_size,
               max_steps        |-> a.max_steps,
               num_train_epochs |->
                   (a.max_steps \div num_update_steps_per_epoch)
                   + (IF a.max_steps % num_update_steps_per_epoch > 0 THEN 1 ELSE 0),
               num_train_samples |-> Rat(a.max_steps * total_train_batch_size, 1) ]
        ELSE [ raised |-> FALSE,
               total_train_batch_size |-> total_train_batch_size,
               max_steps        |-> CeilDiv(ep.num * num_update_steps_per_epoch, ep.den),
               num_train_epochs |-> CeilDiv(ep.num, ep.den),
               num_train_samples |-> Rat(n_training_samples * ep.num, ep.den) ]

\* len(DataLoader(dataset, batch_size, drop_last)), lines 283-292
DataLoaderLen(n, batch_size, drop_last) ==
    IF drop_last THEN n \div batch_size ELSE CeilDiv(n, batch_size)

\* torch.count_nonzero(x["labels"][..., 1:] != -100), line 301
CountNonIgnored(labels) ==
    Cardinality({ p \in 2..Len(labels) : labels[p] # IGNORE_INDEX })

\* torch.stack([... for x in batches]).sum(), lines 300-302
RECURSIVE NItems(_)
NItems(bs) ==
    IF bs = << >> THEN 0
    ELSE CountNonIgnored(Head(bs)) + NItems(Tail(bs))

\* line 296
NBatches(jj, max_it, leftover, ga) ==
    IF jj = max_it - 1 THEN leftover ELSE ga

\* round(num/den) as Python rounds: to the nearest integer, a tie to the even one
Round(num, den) ==
    LET q == num \div den
        r == num % den
    IN  IF 2 * r < den THEN q
        ELSE IF 2 * r > den THEN q + 1
        ELSE IF q % 2 = 0 THEN q ELSE q + 1

\* (mutant) the fractional milestone is rounded
SaveDue_Rounded(s, save_steps, ms) ==
    IF (s * save_steps.den) % save_steps.num = 0
          /\ save_steps.num >= save_steps.den /\ s # 0
    THEN TRUE
    ELSE s = Round(ms * save_steps.num, save_steps.den) /\ save_steps.num > 0

\* the condition of lines 339-344; save_steps is the float num/den, so
\* s % save_steps == 0 is num | s * den, and int() truncates the product
SaveDue(s, save_steps, ms) ==
    IF (s * save_steps.den) % save_steps.num = 0
          /\ save_steps.num >= save_steps.den /\ s # 0
    THEN TRUE
    ELSE s = (ms * save_steps.num) \div save_steps.den /\ save_steps.num > 0

\* get_last_checkpoint(output_dir), line 158: the highest-numbered directory
LastCheckpoint(d) ==
    CHOOSE c \in d : \A o \in d : o.key <= c.key

\* save_checkpoint, lines 121-128: trainer.state is what gets persisted
SaveCheckpoint(d, key, state_global_step, writer) ==
    { c \in d : c.key # key }
        \cup { [key |-> key, global_step |-> state_global_step, run |-> writer] }

\* resume_from_checkpoint False: nothing is loaded, trainer.state is the
\* TrainerState the new trainer was built with (global_step 0)
NoResume == [from_checkpoint |-> FALSE, key |-> 0, writer |-> 0, global_step |-> 0]

\* the checkpoint directory c (lines 163 and 167: weights and trainer state)
Resumed(c) == [from_checkpoint |-> TRUE, key |-> c.key, writer |-> c.run,
               global_step |-> c.global_step]

\* ---------------------------------------------------------------- Init
\* save_steps: a count 1..MaxSaveSteps, or a fraction below 1
SaveStepsValues ==
    { Rat(sv, 1) : sv \in 1..MaxSaveSteps }
        \cup { Rat(num, Pow2(SaveDenLog)) : num \in 1..(Pow2(SaveDenLog) - 1) }

Configs ==
    { [ world_size                  |-> ws,
        per_device_train_batch_size |-> 1,
        dataloader_drop_last        |-> FALSE,
        n_training_samples          |-> n,
        gradient_accumulation_steps |-> ga,
        max_steps                   |-> ms,
        num_train_epochs            |-> Rat(ep, 1),
        save_strategy               |-> ss,
        save_steps                  |-> sv,
        logging_steps               |-> lg,
        torch_dtype                 |-> dt ] :
        ws \in 1..MaxWorldSize,
        n \in 1..MaxSamples, ga \in 1..MaxGA, ms \in 0..MaxStepsArg,
        ep \in 1..MaxEpochs, ss \in {"steps", "epoch", "no"},
        sv \in SaveStepsValues, lg \in 1..MaxLoggingSteps,
        dt \in {"float16", "bfloat16"} }

\* A field the run never reads takes one value only; fp16 mode and a
\* logging interval above 1 are taken one at a time, saving by epoch.
LoopConfigs ==
    { a \in Configs :
        /\ (a.max_steps > 0 => a.num_train_epochs = Rat(1, 1))
        /\ (a.save_strategy # "steps" => a.save_steps = Rat(1, 1))
        /\ (a.torch_dtype = "float16" =>
                a.logging_steps = 1 /\ a.save_strategy = "epoch")
        /\ (a.logging_steps > 1 => a.save_strategy = "epoch")
        /\ (a.world_size > 1 =>
                /\ a.save_strategy = "steps" /\ a.save_steps = Rat(1, 1)
                /\ a.logging_steps = 1 /\ a.torch_dtype = "bfloat16"
                /\ a.gradient_accumulation_steps = 1 /\ a.max_steps = 0
                /\ a.num_train_epochs = Rat(1, 1)) }

NoEmission == [written |-> FALSE, step |-> 0, loss |-> 0]
NoPlan == [called |-> FALSE, result |-> [raised |-> FALSE]]
\* fix_zero_training_loss not yet called: its locals, with the rows counted
\* as the claims count them: read is the number of rows the loop has read,
\* all_ignored those among them whose label positions are all -100, of
\* which vacuous have no label position at all
NoScan ==
    [pc |-> "idle", i |-> 0, seen_bad |-> 0, seen_good |-> 0, read |-> 0,
     all_ignored |-> 0, vacuous |-> 0, warned |-> FALSE]

\* the loop's variables before the first call
LoopIdle ==
    /\ disk = {}
    /\ trainer_state = 0
    /\ status = "Idle"
    /\ run = 0
    /\ pc = "call"
    /\ resume = NoResume
    /\ step = 0 /\ max_steps = 0 /\ num_train_epochs = 0 /\ max_iterations = 0
    /\ num_trained_epochs = 0 /\ num_trained_steps = 0 /\ leftover_batches = 0
    /\ epoch = 0 /\ j = 0 /\ it_pos = 0
    /\ batches = << >> /\ n_items = 0 /\ k = 0 /\ passed = << >>
    /\ grads = 0 /\ opt_steps = 0 /\ sched_steps = 0 /\ zero_grads = 0
    /\ windows = << >>
    /\ saved = << >>
    /\ prev = [status |-> "None", step |-> 0, max_steps |-> 0,
               windows |-> << >>, saved |-> << >>, resume |-> NoResume]
    /\ training = <<FALSE, FALSE>>
    /\ weights = NoResume
    /\ scale = 0 /\ found_inf = FALSE /\ param_updates = 0
    /\ accumulated_loss = 0 /\ window_loss = 0
    /\ emitted = NoEmission /\ n_emitted = 0
    /\ ops = << >>

Init ==
    /\ args \in LoopConfigs
    /\ LoopIdle
    /\ planned = NoPlan
    /\ scan = NoScan

\* ---------------------------------------------------------------- planning
\* line 259
MaxIterations(n, ga) == CeilDiv(n, ga)

\* line 260
NumTrainedEpochs(global_step, max_it) == global_step \div max_it

\* line 261: the subtrahend is max_iterations * num_train_epochs, the TOTAL
\* number of epochs get_max_steps returned, not num_trained_epochs
NumTrainedSteps(s, max_it, n_train_epochs, n_trained_epochs) ==
    s - (max_it * n_train_epochs)

\* lines 262-263
LeftoverBatches(n, ga) ==
    IF n % ga = 0 THEN ga ELSE n % ga

\* set_training, lines 101-108: every module of the model.model chain
SetTraining(flags) == [i \in DOMAIN flags |-> TRUE]

\* unset_training, lines 111-118
UnsetTraining(flags) == [i \in DOMAIN flags |-> FALSE]

\* lines 229-237: the scaler exists in fp16 mode only
Fp16 == args.torch_dtype = "float16"

\* What a run leaves behind when the next call starts.
Left == [status |-> IF run = 0 THEN "None" ELSE status,
         step |-> step, max_steps |-> max_steps,
         windows |-> windows, saved |-> saved, resume |-> resume]

\* lines 172-263 once trainer.state is settled: state_global_step is
\* trainer.state.global_step, r the checkpoint resumed from.  The weights
\* are loaded (163), trainer.state replaced (167) and set_training called
\* (176) before get_max_steps (208) can raise.
Setup(state_global_step, r) ==
    LET n  == args.n_training_samples
        ga == args.gradient_accumulation_steps
        p  == GetMaxSteps(args, n)
        mi == MaxIterations(n, ga)
        te == NumTrainedEpochs(state_global_step, mi)
    IN  /\ trainer_state' = state_global_step
        /\ resume' = r
        /\ weights' = r
        /\ training' = SetTraining(<<FALSE, FALSE>>)
        /\ IF p.raised
           THEN \* line 76: RuntimeError
                /\ status' = "Fatal"
                /\ pc' = "RuntimeError"
                /\ step' = 0 /\ max_steps' = 0 /\ num_train_epochs' = 0
                /\ max_iterations' = 0 /\ num_trained_epochs' = 0
                /\ num_trained_steps' = 0 /\ leftover_batches' = 0
                /\ epoch' = 0
                /\ scale' = 0
           ELSE /\ status' = "Running"
                /\ scale' = IF Fp16 THEN InitScale ELSE 0
                /\ step' = state_global_step
                /\ max_steps' = p.max_steps
                /\ num_train_epochs' = p.num_train_epochs
                /\ max_iterations' = mi
                /\ num_trained_epochs' = te
                /\ num_trained_steps' =
                     NumTrainedSteps(state_global_step, mi, p.num_train_epochs, te)
                /\ leftover_batches' = LeftoverBatches(n, ga)
                /\ epoch' = te
                /\ pc' = "epoch_head"

\* The part of a call that does not depend on the resume request: a new
\* process (a new trainer, a model in evaluation mode), the
\* optimizer.zero_grad() of line 240, the accumulated_loss of line 258.
Enter ==
    /\ status \in {"Idle", "Completed", "Fatal"}
    /\ run < MaxRuns
    /\ run' = run + 1
    /\ prev' = Left
    /\ j' = 0 /\ it_pos' = 0
    /\ batches' = << >> /\ n_items' = 0 /\ k' = 0 /\ passed' = << >>
    /\ grads' = 0 /\ opt_steps' = 0 /\ sched_steps' = 0 /\ zero_grads' = 0
    /\ windows' = << >> /\ saved' = << >>
    /\ found_inf' = FALSE /\ param_updates' = 0
    /\ accumulated_loss' = 0 /\ window_loss' = 0
    /\ emitted' = NoEmission /\ n_emitted' = 0
    /\ ops' = << >>
    /\ UNCHANGED <<args, disk, apart>>

\* unsloth_train(trainer, False): lines 153-154, then 172-263
StartFresh ==
    /\ Enter
    /\ Setup(0, NoResume)

\* unsloth_train(trainer, True): lines 157-170, then 172-263
StartResumeLast ==
    /\ Enter
    /\ IF disk = {}
       THEN \* line 160: ValueError
            /\ status' = "Fatal"
            /\ pc' = "ValueError"
            /\ trainer_state' = 0
            /\ resume' = NoResume
            /\ weights' = NoResume
            /\ training' = <<FALSE, FALSE>>
            /\ scale' = 0
            /\ step' = 0 /\ max_steps' = 0 /\ num_train_epochs' = 0
            /\ max_iterations' = 0 /\ num_trained_epochs' = 0
            /\ num_trained_steps' = 0 /\ leftover_batches' = 0
            /\ epoch' = 0
       ELSE LET c == LastCheckpoint(disk)
            IN  Setup(c.global_step, Resumed(c))

\* unsloth_train(trainer, path): lines 162-170, then 172-263.  The path is a
\* checkpoint directory of output_dir, or a checkpoint some other trainer
\* wrote (writer 0), whose trainer state records its own step number.
StartResumePath ==
    /\ Enter
    /\ \/ \E c \in disk : Setup(c.global_step, Resumed(c))
       \/ \E g \in 1..MaxSavedStep :
            Setup(g, Resumed([key |-> g, global_step |-> g, run |-> 0]))

\* ---------------------------------------------------------------- the loops
\* line 279, and lines 282-292 when the range is not exhausted
EpochHead ==
    /\ status = "Running" /\ pc = "epoch_head"
    /\ IF epoch < num_train_epochs
       THEN /\ it_pos' = 0
            /\ j' = num_trained_steps
            /\ pc' = "inner_head"
       ELSE /\ pc' = "finish"
            /\ UNCHANGED <<it_pos, j>>
    /\ UNCHANGED <<plan, window, counters, process, model_state, scaler,
                   progress, apart, disk, epoch, windows, saved,
                   param_updates, ops>>

\* line 295
InnerHead ==
    /\ status = "Running" /\ pc = "inner_head"
    /\ pc' = IF j < max_iterations THEN "fetch" ELSE "epoch_end"
    /\ UNCHANGED <<plan, window, counters, process, model_state, scaler,
                   progress, apart, disk, epoch, j, it_pos, windows, saved,
                   param_updates, ops>>

\* lines 296-302: the window is drawn eagerly; next() on the exhausted
\* iterator raises StopIteration, which leaves unsloth_train
FetchWindow ==
    /\ status = "Running" /\ pc = "fetch"
    /\ LET nb == NBatches(j, max_iterations, leftover_batches,
                          args.gradient_accumulation_steps)
           len == DataLoaderLen(args.n_training_samples,
                                args.per_device_train_batch_size,
                                args.dataloader_drop_last)
       IN  IF it_pos + nb > len
           THEN /\ status' = "Fatal"
                /\ pc' = "StopIteration"
                /\ it_pos' = len
                /\ UNCHANGED <<window, windows, ops>>
           ELSE /\ \E bs \in [1..nb -> LabelRows] :
                     /\ batches' = bs
                     /\ n_items' = NItems(bs)
                /\ k' = 1
                /\ passed' = << >>
                /\ it_pos' = it_pos + nb
                /\ windows' = Append(windows,
                      [epoch |-> epoch, j |-> j, first |-> it_pos, size |-> nb])
                /\ ops' = << >>
                /\ pc' = "forward"
                /\ status' = status
    /\ UNCHANGED <<plan, counters, model_state, scaler, progress, apart,
                   args, disk, trainer_state, run, resume, epoch, j, saved,
                   prev, param_updates>>

\* (mutant) the count is taken per micro-batch
ForwardNItems_PerMicroBatch(bs, kk, shared) == CountNonIgnored(bs[kk])

\* the normalisation count the forward pass of micro-batch kk receives, line 310
ForwardNItems(bs, kk, shared) == shared

\* (mutant) fp16 mode clips without unscaling
AfterBackward_NoUnscale == "clip"

\* lines 319-322: what follows the window's last backward pass
AfterBackward == IF Fp16 THEN "unscale" ELSE "clip"

\* lines 305-317, one micro-batch: forward with n_items, the loss added to
\* accumulated_loss, then backward (of the scaled loss in fp16 mode)
ForwardBackward ==
    /\ status = "Running" /\ pc = "forward"
    /\ k <= Len(batches)
    /\ passed' = Append(passed, ForwardNItems(batches, k, n_items))
    /\ \E loss \in LossValues :
         /\ accumulated_loss' = accumulated_loss + loss
         /\ window_loss' = window_loss + loss
    /\ grads' = grads + 1
    /\ ops' = Append(ops, "backward")
    /\ k' = k + 1
    /\ pc' = IF k = Len(batches) THEN AfterBackward ELSE "forward"
    /\ UNCHANGED <<plan, process, model_state, scaler, apart, disk, epoch, j,
                   it_pos, batches, n_items, opt_steps, sched_steps,
                   zero_grads, windows, saved, param_updates, emitted,
                   n_emitted>>

\* line 323, fp16 mode: the gradients are divided by the scale; whether one
\* of them is inf or nan is the data's doing
Unscale ==
    /\ status = "Running" /\ pc = "unscale"
    /\ found_inf' \in BOOLEAN
    /\ ops' = Append(ops, "unscale")
    /\ pc' = "clip"
    /\ UNCHANGED <<plan, window, counters, process, model_state, progress,
                   apart, disk, epoch, j, it_pos, windows, saved, scale,
                   param_updates>>

\* lines 320 and 324.  The window's micro-batches are not read again: they
\* are dropped.
ClipGradNorm ==
    /\ status = "Running" /\ pc = "clip"
    /\ pc' = "optimizer_step"
    /\ ops' = Append(ops, "clip")
    /\ batches' = << >> /\ n_items' = 0 /\ k' = 0 /\ passed' = << >>
    /\ UNCHANGED <<plan, counters, process, model_state, scaler, progress,
                   apart, disk, epoch, j, it_pos, windows, saved,
                   param_updates>>

\* (mutant) the scaler steps the optimizer whatever unscale_ found
ScalerStep_Unconditional(found, updates) == updates + 1

\* float16_scaler.step(optimizer), line 325: optimizer.step() is skipped
\* when unscale_ found an inf
ScalerStep(found, updates) == IF found THEN updates ELSE updates + 1

\* float16_scaler.update(), line 326, on the binary logarithm of the scale:
\* backoff_factor 0.5 after a skipped step
ScalerUpdate(found, sc) == IF found THEN sc - 1 ELSE sc

\* (mutant) lines 327-328 slip out of the window loop's body
OptimizerStep_ThenAdvance ==
    /\ status = "Running" /\ pc = "optimizer_step"
    /\ opt_steps' = opt_steps + 1
    /\ param_updates' = IF Fp16 THEN ScalerStep(found_inf, param_updates)
                                ELSE param_updates + 1
    /\ ops' = Append(ops, "optimizer_step")
    /\ pc' = "log"
    /\ UNCHANGED <<plan, window, process, model_state, scaler, progress,
                   apart, disk, epoch, j, it_pos, grads, sched_steps,
                   zero_grads, windows, saved>>

\* line 321, or line 325 in fp16 mode
OptimizerStep ==
    /\ status = "Running" /\ pc = "optimizer_step"
    /\ opt_steps' = opt_steps + 1
    /\ param_updates' = IF Fp16 THEN ScalerStep(found_inf, param_updates)
                                ELSE param_updates + 1
    /\ ops' = Append(ops, "optimizer_step")
    /\ pc' = IF Fp16 THEN "scaler_update" ELSE "scheduler_step"
    /\ UNCHANGED <<plan, window, process, model_state, scaler, progress,
                   apart, disk, epoch, j, it_pos, grads, sched_steps,
                   zero_grads, windows, saved>>

\* line 326, fp16 mode
ScalerUpdateStep ==
    /\ status = "Running" /\ pc = "scaler_update"
    /\ scale' = ScalerUpdate(found_inf, scale)
    /\ found_inf' = FALSE
    /\ ops' = Append(ops, "scaler_update")
    /\ pc' = "scheduler_step"
    /\ UNCHANGED <<plan, window, counters, process, model_state, progress,
                   apart, disk, epoch, j, it_pos, windows, saved,
                   param_updates>>

\* line 327
SchedulerStep ==
    /\ status = "Running" /\ pc = "scheduler_step"
    /\ sched_steps' = sched_steps + 1
    /\ ops' = Append(ops, "scheduler_step")
    /\ pc' = "zero_grad"
    /\ UNCHANGED <<plan, window, process, model_state, scaler, progress,
                   apart, disk, epoch, j, it_pos, grads, opt_steps,
                   zero_grads, windows, saved, param_updates>>

\* line 328
ZeroGrad ==
    /\ status = "Running" /\ pc = "zero_grad"
    /\ grads' = 0
    /\ zero_grads' = zero_grads + 1
    /\ ops' = Append(ops, "zero_grad")
    /\ pc' = "log"
    /\ UNCHANGED <<plan, window, process, model_state, scaler, progress,
                   apart, disk, epoch, j, it_pos, opt_steps, sched_steps,
                   windows, saved, param_updates>>

\* (mutant) the line is written when the advanced step is a multiple
LogDue_PostAdvance(s, logging_steps) == (s + 1) % logging_steps = 0

\* line 330: s is the step of the window, not yet advanced
LogDue(s, logging_steps) == s % logging_steps = 0

\* (mutant) the accumulator is kept until a line is written
AccumulatedAfterLog_KeptUntilWritten(acc, due) == IF due THEN 0 ELSE acc

\* line 333: accumulated_loss.zero_() is outside the if of line 330
AccumulatedAfterLog(acc, due) == 0

\* lines 330-334
Log ==
    /\ status = "Running" /\ pc = "log"
    /\ LET due == LogDue(step, args.logging_steps)
       IN  /\ IF due
              THEN /\ emitted' = [written |-> TRUE, step |-> step,
                                  loss |-> accumulated_loss]
                   /\ n_emitted' = n_emitted + 1
              ELSE UNCHANGED <<emitted, n_emitted>>
           /\ accumulated_loss' = AccumulatedAfterLog(accumulated_loss, due)
    /\ window_loss' = 0
    /\ pc' = "advance"
    /\ UNCHANGED <<plan, window, counters, process, model_state, scaler,
                   apart, disk, epoch, j, it_pos, windows, saved,
                   param_updates, ops>>

\* lines 336-337: the break leaves the window loop only
Advance ==
    /\ status = "Running" /\ pc = "advance"
    /\ step' = step + 1
    /\ ops' = Append(ops, "advance")
    /\ emitted' = NoEmission
    /\ pc' = IF step + 1 = max_steps THEN "epoch_end" ELSE "save_check"
    /\ UNCHANGED <<window, counters, process, model_state, scaler, apart,
                   disk, max_steps, num_train_epochs, max_iterations,
                   num_trained_epochs, num_trained_steps, leftover_batches,
                   epoch, j, it_pos, windows, saved, param_updates,
                   accumulated_loss, window_loss, n_emitted>>

\* lines 339-344, then the next j of line 295
SaveCheck ==
    /\ status = "Running" /\ pc = "save_check"
    /\ IF args.save_strategy # "epoch" /\ SaveDue(step, args.save_steps, max_steps)
       THEN /\ disk' = SaveCheckpoint(disk, step, trainer_state, run)
            /\ saved' = Append(saved, step)
       ELSE UNCHANGED <<disk, saved>>
    /\ j' = j + 1
    /\ pc' = "inner_head"
    /\ UNCHANGED <<plan, window, counters, process, model_state, scaler,
                   progress, apart, epoch, it_pos, windows, param_updates,
                   ops>>

\* lines 347-348, then the next epoch of line 279
EpochEnd ==
    /\ status = "Running" /\ pc = "epoch_end"
    /\ IF args.save_strategy = "epoch"
       THEN /\ disk' = SaveCheckpoint(disk, step, trainer_state, run)
            /\ saved' = Append(saved, step)
       ELSE UNCHANGED <<disk, saved>>
    /\ epoch' = epoch + 1
    /\ pc' = "epoch_head"
    /\ UNCHANGED <<plan, window, counters, process, model_state, scaler,
                   progress, apart, j, it_pos, windows, param_updates, ops>>

\* lines 351-358
Finish ==
    /\ status = "Running" /\ pc = "finish"
    /\ training' = UnsetTraining(training)
    /\ status' = "Completed"
    /\ pc' = "return"
    /\ UNCHANGED <<plan, window, counters, scaler, progress, apart, args,
                   disk, trainer_state, run, resume, epoch, j, it_pos,
                   windows, saved, prev, weights, param_updates, ops>>

Next ==
    \/ StartFresh
    \/ StartResumeLast
    \/ StartResumePath
    \/ EpochHead
    \/ InnerHead
    \/ FetchWindow
    \/ ForwardBackward
    \/ Unscale
    \/ ClipGradNorm
    \/ OptimizerStep
    \/ ScalerUpdateStep
    \/ SchedulerStep
    \/ ZeroGrad
    \/ Log
    \/ Advance
    \/ SaveCheck
    \/ EpochEnd
    \/ Finish

Spec == Init /\ [][Next]_vars

\* ------------------------------------------------- get_max_steps alone
\* dataset sizes and accumulation steps: the small ones, and those of the
\* documented example (100 rows, 8 accumulation steps)
PlannerSamples == (0..MaxSamples) \cup {100}
PlannerGA == (1..MaxGA) \cup {8}

PlannerConfigs ==
    { [ world_size                  |-> ws,
        per_device_train_batch_size |-> b,
        n_training_samples          |-> n,
        gradient_accumulation_steps |-> ga,
        max_steps                   |-> ms,
        num_train_epochs            |-> Rat(num, Pow2(e)) ] :
        ws \in 1..MaxWorldSize, b \in 1..MaxBatch, n \in PlannerSamples,
        ga \in PlannerGA, ms \in 0..MaxStepsArg, num \in 1..MaxEpochNum,
        e \in 0..EpochDenLog }

PlannerInit ==
    /\ args \in PlannerConfigs
    /\ LoopIdle
    /\ planned = NoPlan
    /\ scan = NoScan

\* one call of get_max_steps(training_args, n_training_samples, dataset)
Plan ==
    /\ ~planned.called
    /\ planned' = [called |-> TRUE,
                   result |-> GetMaxSteps(args, args.n_training_samples)]
    /\ UNCHANGED <<args, loop_vars, scan>>

PlannerNext == Plan

PlannerSpec == PlannerInit /\ [][PlannerNext]_vars

\* ---------------------------------------- fix_zero_training_loss alone
\* row["labels"] of a row that can be inspected
ScanLabels == { <<IGNORE_INDEX, IGNORE_INDEX>>, <<IGNORE_INDEX>>,
                <<5, IGNORE_INDEX>>, <<5, 5>>, << >> }

\* list(set(row["labels"])), line 53, as the set
CheckTokens(labels) == { labels[p] : p \in 1..Len(labels) }

\* (mutant) a row counts as bad as soon as it holds one -100
SeenBad_AnyIgnored(check_tokens) == IGNORE_INDEX \in check_tokens

\* the condition of line 55
SeenBad(check_tokens) ==
    Cardinality(check_tokens) = 1 /\ check_tokens = {IGNORE_INDEX}

ScannerInit ==
    /\ args = [rows_at_most |-> MaxRows]
    /\ LoopIdle
    /\ planned = NoPlan
    /\ scan = NoScan

\* lines 44-51: an empty dataset, or a first row that is no dict with a
\* "labels" key, ends the function at once
ScanStart ==
    /\ scan.pc = "idle"
    /\ \/ scan' = [scan EXCEPT !.pc = "return"]
       \/ scan' = [scan EXCEPT !.pc = "loop"]
    /\ UNCHANGED <<args, loop_vars, planned>>

\* the for statement of line 52 finds no row i: the dataset has i rows
ScanExhausted ==
    /\ scan.pc = "loop"
    /\ scan.i >= 1
    /\ scan' = [scan EXCEPT !.pc = "ratio"]
    /\ UNCHANGED <<args, loop_vars, planned>>

\* lines 52-57 for row i, whose labels cannot be put in a set (or are
\* missing): continue skips the rest of the body, line 57 included
ScanRowRaises ==
    /\ scan.pc = "loop"
    /\ scan.i < MaxRows
    /\ scan' = [scan EXCEPT !.i = @ + 1, !.read = @ + 1]
    /\ UNCHANGED <<args, loop_vars, planned>>

\* lines 52-57 for row i, whose labels can be inspected
ScanRow ==
    /\ scan.pc = "loop"
    /\ scan.i < MaxRows
    /\ \E labels \in ScanLabels :
         LET check_tokens == CheckTokens(labels)
             bad == SeenBad(check_tokens)
             ignored == \A p \in 1..Len(labels) : labels[p] = IGNORE_INDEX
         IN  /\ Len(labels) = 0 => scan.vacuous < MaxEmptyRows
             /\ scan' = [scan EXCEPT
                    !.seen_bad  = IF bad THEN @ + 1 ELSE @,
                    !.seen_good = IF bad THEN @ ELSE @ + 1,
                    !.read = @ + 1,
                    !.all_ignored = IF ignored THEN @ + 1 ELSE @,
                    !.vacuous = IF Len(labels) = 0 THEN @ + 1 ELSE @,
                    !.i  = IF scan.i >= ScanLimit THEN @ ELSE @ + 1,
                    !.pc = IF scan.i >= ScanLimit THEN "ratio" ELSE "loop"]
    /\ UNCHANGED <<args, loop_vars, planned>>

\* (mutant) the warning needs more than nine bad rows in ten
Warns_Above(seen_bad, seen_good) == 10 * seen_bad > 9 * (seen_bad + seen_good)

\* seen_bad / (seen_bad + seen_good) >= 0.9, line 61, for a non-zero divisor
Warns(seen_bad, seen_good) == 10 * seen_bad >= 9 * (seen_bad + seen_good)

\* lines 60-66
ScanRatio ==
    /\ scan.pc = "ratio"
    /\ IF scan.seen_bad + scan.seen_good = 0
       THEN scan' = [scan EXCEPT !.pc = "ZeroDivisionError"]
       ELSE scan' = [scan EXCEPT !.pc = "return",
                                 !.warned = Warns(scan.seen_bad, scan.seen_good)]
    /\ UNCHANGED <<args, loop_vars, planned>>

ScannerNext ==
    \/ ScanStart
    \/ ScanExhausted
    \/ ScanRowRaises
    \/ ScanRow
    \/ ScanRatio

ScannerSpec == ScannerInit /\ [][ScannerNext]_vars

\* ================================================================ claims
Called == run >= 1 /\ pc \notin {"ValueError", "RuntimeError"}
Fresh == Called /\ ~resume.from_checkpoint
WindowSteps == {"forward", "unscale", "clip", "optimizer_step",
                "scaler_update", "scheduler_step", "zero_grad", "log",
                "advance"}

\* the indices in windows of the windows of epoch e, in order
RECURSIVE EpochWindows(_, _)
EpochWindows(ws, e) ==
    IF ws = << >> THEN << >>
    ELSE IF Head(ws).epoch = e
         THEN <<Head(ws)>> \o EpochWindows(Tail(ws), e)
         ELSE EpochWindows(Tail(ws), e)

RECURSIVE SumSizes(_)
SumSizes(ws) == IF ws = << >> THEN 0 ELSE Head(ws).size + SumSizes(Tail(ws))

\* C1: a fresh run never draws from the exhausted per-epoch iterator (never
\* ends Fatal) and, once Completed, has taken exactly max_steps optimizer steps.
C1_FreshRunCompletes ==
    Fresh => /\ status # "Fatal"
             /\ (status = "Completed" => opt_steps = max_steps)

\* C2: a run that starts with global_step <= max_steps never has
\* step > max_steps, processes no window once step = max_steps, and ends
\* with step = max_steps.
C2_NeverPastMaxSteps ==
    (Called /\ resume.global_step <= max_steps) =>
        /\ step <= max_steps
        /\ (step = max_steps => pc \notin WindowSteps)
        /\ (status = "Completed" => step = max_steps)

\* C3: every checkpoint save_checkpoint wrote to checkpoint-{s} records
\* global_step = s, so a run resumed from it starts at step s.
C3_CheckpointRecordsItsStep ==
    /\ \A c \in disk : c.run >= 1 => c.global_step = c.key
    /\ (Called /\ resume.from_checkpoint /\ resume.writer >= 1
            => resume.global_step = resume.key)

\* this run resumed from the last checkpoint the previous run wrote, and the
\* previous run had completed with step = max_steps
ResumedFromFinalCheckpoint ==
    /\ Called /\ resume.from_checkpoint
    /\ prev.status = "Completed" /\ prev.step = prev.max_steps
    /\ prev.saved # << >>
    /\ resume.writer = run - 1
    /\ resume.key = prev.saved[Len(prev.saved)]

\* C4: a run resumed from the last checkpoint of a completed run takes no
\* optimizer step and ends at the same step.
C4_ResumeIdempotent ==
    ResumedFromFinalCheckpoint =>
        /\ opt_steps = 0
        /\ (status = "Completed" => step = prev.step)

SameMicroBatches(w, v) ==
    w.epoch = v.epoch /\ w.first = v.first /\ w.size = v.size

\* this run resumed from checkpoint-{g} of the previous run, which was a
\* fresh, uninterrupted run
ResumedFromFreshRun ==
    /\ Called /\ resume.from_checkpoint
    /\ resume.writer = run - 1 /\ resume.writer >= 1
    /\ ~prev.resume.from_checkpoint

\* C5: the i-th window of a run resumed from checkpoint-{g} is the window the
\* uninterrupted run processed for step g + i, and every epoch after the one
\* resumed into starts with window 0 at the head of the shuffled order.
C5_ResumeReplaysSameWindows ==
    ResumedFromFreshRun =>
        /\ \A i \in 1..Len(windows) :
              (resume.key + i) \in 1..Len(prev.windows)
                  => SameMicroBatches(windows[i], prev.windows[resume.key + i])
        /\ \A i \in 1..Len(windows) :
              (/\ windows[i].epoch > windows[1].epoch
               /\ (i = 1 \/ windows[i-1].epoch # windows[i].epoch))
                  => windows[i].j = 0 /\ windows[i].first = 0

\* C6: the loop starts at epoch g \div M and at window g - M * (g \div M),
\* which is g % M, lies in 0..M-1 and is 0 for a fresh run.
C6_ResumePoint ==
    (Called /\ status = "Running") =>
        LET g == resume.global_step
            M == CeilDiv(args.n_training_samples, args.gradient_accumulation_steps)
        IN  /\ num_trained_epochs = g \div M
            /\ num_trained_steps = g - M * (g \div M)
            /\ num_trained_steps = g % M
            /\ num_trained_steps \in 0..(M - 1)
            /\ (g = 0 => num_trained_steps = 0)
            /\ (windows # << >> =>
                    /\ windows[1].epoch = g \div M
                    /\ windows[1].j = g % M)

\* C7: in an epoch no resume lands in, the i-th window has index i - 1 <= M - 1,
\* holds accumulation_steps micro-batches, or leftover ones when it is the
\* final window; an epoch whose window range is exhausted has drawn exactly
\* dataset_size micro-batches.
C7_EpochWindows ==
    Called =>
        LET M  == CeilDiv(args.n_training_samples, args.gradient_accumulation_steps)
            ga == args.gradient_accumulation_steps
            r  == args.n_training_samples % ga
            leftover == IF r = 0 THEN ga ELSE r
        IN  \A e \in {w.epoch : w \in {windows[i] : i \in 1..Len(windows)}} :
              (resume.from_checkpoint /\ e = num_trained_epochs) \/
              LET ws == EpochWindows(windows, e)
              IN  /\ \A i \in 1..Len(ws) :
                        /\ ws[i].j = i - 1
                        /\ ws[i].j <= M - 1
                        /\ ws[i].size = IF ws[i].j = M - 1 THEN leftover ELSE ga
                  /\ (Len(ws) = M => SumSizes(ws) = args.n_training_samples)

\* the save of lines 339-344 for the current step has been decided
SaveDecided == pc \notin {"advance", "save_check", "epoch_end"}

\* C10: under the step strategy, checkpoint-{s} is written after step s if
\* and only if s % save_steps = 0, for every step s the run has completed,
\* the step that reaches max_steps included.
C10_StepSaves ==
    (Called /\ args.save_strategy = "steps" /\ args.save_steps.den = 1) =>
        \A s \in (resume.global_step + 1)..step :
            (s < step \/ SaveDecided) =>
                ((\E i \in 1..Len(saved) : saved[i] = s)
                    <=> (s % args.save_steps.num = 0))

\* the run saves by steps and save_steps is a fraction below 1
FractionalSaves ==
    /\ Called /\ args.save_strategy = "steps"
    /\ args.save_steps.num < args.save_steps.den

\* C11 as stated: with a fractional save_steps f, checkpoint-{s} is written
\* after step s if and only if s = round(max_steps * f) and s is in
\* 1..max_steps.
C11_RoundedMilestone ==
    FractionalSaves =>
        \A s \in (resume.global_step + 1)..step :
            (s < step \/ SaveDecided) =>
                ((\E i \in 1..Len(saved) : saved[i] = s)
                    <=> /\ s = Round(max_steps * args.save_steps.num,
                                     args.save_steps.den)
                        /\ s \in 1..max_steps)

\* C11 (amended): with a fractional save_steps f, checkpoint-{s} is written
\* after step s if and only if s = int(max_steps * f), the product truncated,
\* so a run writes at most one checkpoint, and none when the product is
\* below 1 or the run starts at or past it.
C11_TruncatedMilestone ==
    FractionalSaves =>
        /\ \A s \in (resume.global_step + 1)..step :
              (s < step \/ SaveDecided) =>
                  ((\E i \in 1..Len(saved) : saved[i] = s)
                      <=> s = (max_steps * args.save_steps.num)
                                  \div args.save_steps.den)
        /\ Len(saved) <= 1

\* a run with a fractional save_steps has completed and wrote its one
\* checkpoint at a step that rounding would not have chosen
C11_Witness ==
    /\ FractionalSaves /\ status = "Completed"
    /\ Len(saved) = 1
    /\ saved[1] # Round(max_steps * args.save_steps.num, args.save_steps.den)

\* label positions of the window that are not the ignore sentinel, from
\* position `from` of each micro-batch's sequence on
LabelPositions(bs, from) ==
    UNION { { <<b, p>> : p \in { q \in from..Len(bs[b]) : bs[b][q] # IGNORE_INDEX } } :
            b \in 1..Len(bs) }

\* C8 as stated: every forward pass of a window receives the number of ALL
\* label positions of the window that are not -100.
C8_CountsEveryLabelPosition ==
    pc \in {"forward", "unscale", "clip"} =>
        /\ n_items = Cardinality(LabelPositions(batches, 1))
        /\ \A i \in 1..Len(passed) :
              passed[i] = Cardinality(LabelPositions(batches, 1))

\* C8 (amended): every forward pass of a window receives one and the same
\* count, fixed before the first pass: the number of label positions of the
\* window, the first position of each sequence left out (labels[..., 1:]),
\* that are not -100.
C8_SharedNormalizationCount ==
    pc \in {"forward", "unscale", "clip"} =>
        /\ n_items = Cardinality(LabelPositions(batches, 2))
        /\ \A i \in 1..Len(passed) :
              passed[i] = Cardinality(LabelPositions(batches, 2))

\* a window of two micro-batches with different counts has been passed whole,
\* and a first position that is not -100 was left out of the count
C8_Witness ==
    /\ pc = "clip"
    /\ Len(batches) >= 2 /\ Len(passed) = Len(batches)
    /\ CountNonIgnored(batches[1]) # CountNonIgnored(batches[2])
    /\ passed[1] > 0
    /\ Cardinality(LabelPositions(batches, 1)) > passed[1]

\* C9: whenever save_checkpoint is invoked, every window fetched so far has
\* had its optimizer step, scheduler step, gradient zeroing and step advance,
\* and no micro-batch is accumulated in the gradients.
C9_SaveBetweenWindows ==
    [][ Len(saved') = Len(saved) + 1 =>
            /\ grads = 0
            /\ batches = << >> /\ passed = << >>
            /\ opt_steps = Len(windows)
            /\ sched_steps = Len(windows)
            /\ zero_grads = Len(windows)
            /\ step = resume.global_step + Len(windows) ]_vars

\* a step-based checkpoint has been written while windows remain
C9_Witness ==
    /\ status = "Running" /\ pc = "fetch"
    /\ args.save_strategy = "steps"
    /\ saved # << >>
    /\ opt_steps >= 1 /\ grads = 0

\* an epoch-based checkpoint has been written after an epoch of two windows
C9_WitnessEpoch ==
    /\ status = "Completed"
    /\ args.save_strategy = "epoch"
    /\ saved # << >>
    /\ opt_steps >= 2

\* C12: in fp16 mode an optimizer step after an overflow leaves the
\* parameters as they were and the scaler's update then makes the scale
\* strictly smaller, the run going on; after no overflow the update is
\* applied; in bf16 mode every optimizer step applies its update.
C12_OverflowSkipsUpdate ==
    [][ /\ (opt_steps' = opt_steps + 1 =>
               /\ param_updates' = IF Fp16 /\ found_inf THEN param_updates
                                                         ELSE param_updates + 1
               /\ status' = "Running")
        /\ ((pc = "scaler_update" /\ pc' # pc) =>
               /\ (found_inf => scale' < scale)
               /\ (~found_inf => scale' = scale)
               /\ param_updates' = param_updates
               /\ status' = "Running")
        /\ (scale' # scale => pc = "scaler_update" \/ pc = "call" \/ run' # run)
      ]_vars

\* fp16 mode: the first window overflowed (no update, a smaller scale) and
\* the second, which did not, has just applied its update
C12_Witness ==
    /\ Fp16 /\ pc = "scaler_update" /\ ~found_inf
    /\ opt_steps = 2 /\ param_updates = 1
    /\ scale = InitScale - 1

\* C13: a call with world_size > 1 ends in the RuntimeError with nothing
\* changed: no checkpoint weights in the model, the trainer state not
\* replaced, the training flags as they were, no optimizer step, no
\* checkpoint written.
C13_FailsBeforeAnyMutation ==
    (run >= 1 /\ args.world_size > 1) =>
        /\ status = "Fatal" /\ pc \in {"RuntimeError", "ValueError"}
        /\ weights = NoResume
        /\ trainer_state = 0
        /\ training = <<FALSE, FALSE>>
        /\ opt_steps = 0 /\ param_updates = 0
        /\ saved = << >> /\ disk = {}

\* C14: for world_size 1, get_max_steps returns total_train_batch_size =
\* batch size * accumulation steps; with U = max(n // accumulation steps, 1),
\* a given max_steps > 0 comes back unchanged with ceil(max_steps / U)
\* epochs, and otherwise max_steps = ceil(epochs * U) with ceil(epochs)
\* epochs; 100 rows, 8 accumulation steps and 3 epochs give U = 12, 36, 3.
C14_PlannerFormulas ==
    (planned.called /\ args.world_size = 1) =>
        LET r  == planned.result
            n  == args.n_training_samples
            ga == args.gradient_accumulation_steps
            ms == args.max_steps
            ep == args.num_train_epochs
            U  == IF n \div ga >= 1 THEN n \div ga ELSE 1
            Ceil(num, den) ==
                CHOOSE c \in 0..num : c * den >= num /\ (c - 1) * den < num
        IN  /\ ~r.raised
            /\ r.total_train_batch_size = args.per_device_train_batch_size * ga
            /\ IF ms > 0
               THEN /\ r.max_steps = ms
                    /\ r.num_train_epochs = Ceil(ms, U)
               ELSE /\ r.max_steps = Ceil(ep.num * U, ep.den)
                    /\ r.num_train_epochs = Ceil(ep.num, ep.den)
            /\ ((n = 100 /\ ga = 8 /\ ms = 0 /\ ep = Rat(3, 1)) =>
                    U = 12 /\ r.max_steps = 36 /\ r.num_train_epochs = 3)

\* get_max_steps has returned for 100 rows, 8 accumulation steps, 3 epochs
C14_Witness ==
    /\ planned.called /\ args.world_size = 1
    /\ args.n_training_samples = 100 /\ args.gradient_accumulation_steps = 8
    /\ args.max_steps = 0 /\ args.num_train_epochs = Rat(3, 1)
    /\ planned.result.max_steps = 36

\* the scanner has returned from its loop and none of the rows it read raised
ScannedWithoutRaise ==
    /\ scan.pc = "return" /\ scan.read >= 1
    /\ scan.read = scan.seen_bad + scan.seen_good

\* C15 as stated: the warning is emitted if and only if at least nine in ten
\* of the inspected rows have all their label positions equal to -100.
C15_WarnsAtNineInTen ==
    ScannedWithoutRaise =>
        (scan.warned <=> 10 * scan.all_ignored >= 9 * scan.read)

\* C15 (amended): the warning is emitted if and only if at least nine in ten
\* of the inspected rows have a non-empty label list whose positions are all
\* -100; a row with an empty label list counts as usable.  The inspected
\* rows are the first 101 at most.
C15_WarnsAtNineInTenNonEmpty ==
    ScannedWithoutRaise =>
        /\ (scan.warned <=>
                10 * (scan.all_ignored - scan.vacuous) >= 9 * scan.read)
        /\ scan.read <= ScanLimit + 1

\* 101 rows were inspected, 95 of them all -100, and the warning was emitted
C15_Witness ==
    /\ ScannedWithoutRaise /\ scan.read = 101
    /\ scan.all_ignored - scan.vacuous = 95
    /\ scan.warned

\* 101 rows were inspected, 50 of them all -100, and no warning was emitted
C15_WitnessHalf ==
    /\ ScannedWithoutRaise /\ scan.read = 101
    /\ scan.all_ignored - scan.vacuous = 50
    /\ ~scan.warned

\* C19: the scanner never raises.
C19_ScannerNeverRaises == scan.pc # "ZeroDivisionError"

\* C20: the scanner reads no row with an index above 100: at most 101 rows.
C20_AtMostFirst101Rows == scan.read <= ScanLimit + 1

\* lines 330-334 are being executed for the window
Logging == pc = "log" /\ pc' = "advance"

\* C16 as stated: a window that writes no progress line leaves
\* accumulated_loss as it is.
C16_ResetOnlyWhenLogged ==
    [][ (Logging /\ n_emitted' = n_emitted)
            => accumulated_loss' = accumulated_loss ]_vars

\* C16 (amended): accumulated_loss is reset to zero after every window,
\* whether or not a progress line is written, so it holds the losses of the
\* current window only, and the loss of a progress line is the sum of the
\* losses of the micro-batches of the window it is written in.
C16_ResetAfterEveryWindow ==
    [][ Logging =>
            /\ accumulated_loss = window_loss
            /\ accumulated_loss' = 0
            /\ (n_emitted' = n_emitted + 1 =>
                    emitted'.written /\ emitted'.loss = window_loss) ]_vars

\* logging_steps is 2; the third window of a fresh run, which follows a
\* window that wrote no line, has written its line
C16_Witness ==
    /\ Fresh /\ args.logging_steps = 2
    /\ pc = "advance" /\ emitted.written
    /\ opt_steps = 3 /\ n_emitted = 2

\* C17 as stated: a progress line is written after a window if and only if
\* the step after the window's advance is a multiple of logging_steps, and
\* it carries that step, so none carries 0.
C17_LogsAdvancedStep ==
    [][ Logging =>
            /\ (n_emitted' = n_emitted + 1
                    <=> (step + 1) % args.logging_steps = 0)
            /\ (n_emitted' = n_emitted + 1
                    => emitted'.step = step + 1 /\ emitted'.step # 0) ]_vars

\* C17 (amended): a progress line is written in a window if and only if the
\* step before the window's advance (the number of windows completed before
\* it, counted from the step the run started at) is a multiple of
\* logging_steps, and it carries that step: whatever logging_steps is, a
\* fresh run writes its first line, carrying 0, in its first window.
C17_LogsStepBeforeAdvance ==
    [][ Logging =>
            /\ (n_emitted' = n_emitted + 1 <=> step % args.logging_steps = 0)
            /\ (n_emitted' = n_emitted => emitted' = emitted)
            /\ (n_emitted' = n_emitted + 1 => emitted'.step = step)
            /\ (n_emitted' = n_emitted + 1 /\ opt_steps = 1 /\ ~resume.from_checkpoint
                    => emitted'.step = 0) ]_vars

\* the first window of a fresh run with logging_steps 2 has written a line
\* that carries step 0
C17_Witness ==
    /\ Fresh /\ args.logging_steps = 2
    /\ pc = "advance" /\ opt_steps = 1
    /\ emitted.written /\ emitted.step = 0

\* the operations of a window of nb micro-batches, in the order the claim
\* gives them (the scaler's update belongs to the fp16 optimizer step)
WindowOrder(nb, fp16) ==
    [i \in 1..nb |-> "backward"]
        \o (IF fp16 THEN <<"unscale">> ELSE << >>)
        \o <<"clip", "optimizer_step">>
        \o (IF fp16 THEN <<"scaler_update">> ELSE << >>)
        \o <<"scheduler_step", "zero_grad", "advance">>

IsPrefix(a, b) == Len(a) <= Len(b) /\ \A i \in 1..Len(a) : a[i] = b[i]

\* C18: the operations of every window are, in this order and once each:
\* the backward passes of all its micro-batches, in fp16 mode the unscaling,
\* the clipping, the optimizer step, the scheduler step, the gradient
\* zeroing, the step advance.
C18_WindowOrder ==
    (Called /\ windows # << >>) =>
        LET order == WindowOrder(windows[Len(windows)].size, Fp16)
        IN  /\ IsPrefix(ops, order)
            /\ (step = resume.global_step + Len(windows) => ops = order)
            /\ (pc \in WindowSteps => step = resume.global_step + Len(windows) - 1)

\* an fp16 window of two micro-batches has gone through all its operations
C18_Witness ==
    /\ Called /\ Fp16 /\ pc = "save_check"
    /\ Len(ops) = 9 /\ ops[2] = "backward" /\ ops[3] = "unscale"

=============================================================================
